---- MODULE Spec2Model ----
(***************************************************************************)
(* Model of converter.py: conversion of stereoscopic video between the     *)
(* side-by-side ("sbs") and top-and-bottom ("tab") frame layouts.          *)
(*                                                                         *)
(* Three specifications share the variables below:                         *)
(*   SpecXform  the per-frame transforms sbs_to_tab / tab_to_sbs applied   *)
(*              to frames drawn from a bounded set;                        *)
(*   SpecGeom   validate_resolution / get_output_dimensions applied to     *)
(*              dimensions drawn from a bounded set;                       *)
(*   Spec       one run of main(): configuration checks, opening the       *)
(*              decoder and encoder, the frame loop and the finally block. *)
(***************************************************************************)
EXTENDS Integers, Sequences, FiniteSets, TLC

\* ---------------------------------------------------------------- bounds
\* Largest frame width / height drawn as an input.
MaxW == 4
MaxH == 4
\* Largest number of pixels (width * height) of a frame drawn as an input.
MaxArea == 12

\* A pixel is one of two values: enough to tell any two positions apart.
Pixels == {0, 1}

\* ------------------------------------------------------- values and results
\* A Python call either returns a value or raises an exception.
Ok(v) == [exc |-> "none", val |-> v]
Raise(e) == [exc |-> e, val |-> <<>>]

\* ------------------------------------------------------------ frame buffers
\* A frame is a numpy array of shape (h, w): h rows of w pixels each.
RowsOf(w, h) == [1..h -> [1..w -> Pixels]]
MkFrame(h, w, px) == [h |-> h, w |-> w, px |-> px]
FramesOf(w, h) == {MkFrame(h, w, px) : px \in RowsOf(w, h)}

\* frame[:, :k]  -- the first k columns of every row
ColsBefore(f, k) ==
    MkFrame(f.h, k, [r \in 1..f.h |-> SubSeq(f.px[r], 1, k)])

\* frame[:, k:]  -- the columns after the first k of every row
ColsFrom(f, k) ==
    MkFrame(f.h, f.w - k, [r \in 1..f.h |-> SubSeq(f.px[r], k + 1, f.w)])

\* frame[:k]  -- the first k rows
RowsBefore(f, k) == MkFrame(k, f.w, SubSeq(f.px, 1, k))

\* frame[k:]  -- the rows after the first k
RowsFrom(f, k) == MkFrame(f.h - k, f.w, SubSeq(f.px, k + 1, f.h))

\* np.vstack((a, b)): concatenation along axis 0, a above b; numpy raises
\* ValueError when the other dimension (the width) differs.
vstack(a, b) ==
    IF a.w # b.w
    THEN Raise("ValueError")
    ELSE Ok(MkFrame(a.h + b.h, a.w, a.px \o b.px))

\* np.hstack((a, b)): concatenation along axis 1, a left of b; numpy raises
\* ValueError when the other dimension (the height) differs.
hstack(a, b) ==
    IF a.h # b.h
    THEN Raise("ValueError")
    ELSE Ok(MkFrame(a.h, a.w + b.w, [r \in 1..a.h |-> a.px[r] \o b.px[r]]))

\* Mutant: the right half is stacked above the left half.
sbs_to_tab_swapped(frame) ==
    LET w == frame.w
        left == ColsBefore(frame, w \div 2)
        right == ColsFrom(frame, w \div 2)
    IN  vstack(right, left)

\* Mutant: both halves are cut to floor(w/2) columns, so an odd width loses
\* its last column instead of failing.
sbs_to_tab_floor(frame) ==
    LET w == frame.w
        left == ColsBefore(frame, w \div 2)
        right == ColsBefore(ColsFrom(frame, w \div 2), w \div 2)
    IN  vstack(left, right)

sbs_to_tab(frame) ==
    LET w == frame.w
        left == ColsBefore(frame, w \div 2)
        right == ColsFrom(frame, w \div 2)
    IN  vstack(left, right)

\* Mutant: the bottom half is placed left of the top half.
tab_to_sbs_swapped(frame) ==
    LET h == frame.h
        top == RowsBefore(frame, h \div 2)
        bottom == RowsFrom(frame, h \div 2)
    IN  hstack(bottom, top)

tab_to_sbs(frame) ==
    LET h == frame.h
        top == RowsBefore(frame, h \div 2)
        bottom == RowsFrom(frame, h \div 2)
    IN  hstack(top, bottom)

\* ------------------------------------------------------------------ layouts
\* The values argparse admits for --input-format / --output-format.
Formats == {"sbs", "tab"}

\* The messages of the ValueErrors the geometry functions raise.
ErrSbsWidthOdd == "ValueError: invalid SBS input: width must be even"
ErrTabHeightOdd == "ValueError: invalid TAB input: height must be even"
ErrInvalidFormat == "ValueError: Invalid input format"
ErrSameFormat == "ValueError: no conversion needed when the formats are the same"

\* Mutant: the SBS branch tests the height instead of the width.
validate_resolution_wrong_dim(width, height, input_format) ==
    IF input_format = "sbs"
    THEN IF height % 2 # 0
         THEN Raise(ErrSbsWidthOdd)
         ELSE Ok(<<width \div 2, height>>)
    ELSE IF input_format = "tab"
    THEN IF height % 2 # 0
         THEN Raise(ErrTabHeightOdd)
         ELSE Ok(<<width, height \div 2>>)
    ELSE Raise(ErrInvalidFormat)

validate_resolution(width, height, input_format) ==
    IF input_format = "sbs"
    THEN IF width % 2 # 0
         THEN Raise(ErrSbsWidthOdd)
         ELSE Ok(<<width \div 2, height>>)
    ELSE IF input_format = "tab"
    THEN IF height % 2 # 0
         THEN Raise(ErrTabHeightOdd)
         ELSE Ok(<<width, height \div 2>>)
    ELSE Raise(ErrInvalidFormat)

\* Mutant: TAB -> SBS forgets to halve the height.
get_output_dimensions_no_halving(input_width, input_height, in_fmt, out_fmt) ==
    IF in_fmt = "sbs" /\ out_fmt = "tab"
    THEN Ok(<<input_width \div 2, input_height * 2>>)
    ELSE IF in_fmt = "tab" /\ out_fmt = "sbs"
    THEN Ok(<<input_width * 2, input_height>>)
    ELSE Raise(ErrSameFormat)

\* Mutant: equal layouts are passed through instead of being rejected.
get_output_dimensions_passthrough(input_width, input_height, in_fmt, out_fmt) ==
    IF in_fmt = "sbs" /\ out_fmt = "tab"
    THEN Ok(<<input_width \div 2, input_height * 2>>)
    ELSE IF in_fmt = "tab" /\ out_fmt = "sbs"
    THEN Ok(<<input_width * 2, input_height \div 2>>)
    ELSE IF in_fmt = out_fmt
    THEN Ok(<<input_width, input_height>>)
    ELSE Raise(ErrSameFormat)

get_output_dimensions(input_width, input_height, in_fmt, out_fmt) ==
    IF in_fmt = "sbs" /\ out_fmt = "tab"
    THEN Ok(<<input_width \div 2, input_height * 2>>)
    ELSE IF in_fmt = "tab" /\ out_fmt = "sbs"
    THEN Ok(<<input_width * 2, input_height \div 2>>)
    ELSE Raise(ErrSameFormat)

\* ---------------------------------------------------------------- variables
VARIABLES
    \* SpecXform: a frame and the results of one transform and of its inverse
    frame, first, res1, res2,
    \* SpecGeom: dimensions, layouts and the results of the geometry functions
    gw, gh, gin, gout, vres, dres, dinv,
    \* Spec, the command line: --input-format and --output-format
    in_fmt, out_fmt,
    \* Spec, the input video: its frame size and its frames
    width, height, stream,
    \* Spec, main(): the statement to run next, the decoder and encoder handles,
    \* the computed output size, the frame in hand, what was reported and the
    \* message of the exception caught
    pc, cap, out, outSize, cur, reported, error,
    \* Spec, the collaborators: the decoder's position, the frames the encoder
    \* has taken
    pos, written,
    \* Spec, history: calls of cap.read(), calls of release() per handle,
    \* whether a handle was used after its release, whether a collaborator
    \* (filesystem, decoder, encoder) failed
    readCalls, capReleases, outReleases, usedAfterRelease, ioError

xvars == <<frame, first, res1, res2>>
gvars == <<gw, gh, gin, gout, vres, dres, dinv>>
envvars == <<in_fmt, out_fmt, width, height, stream>>
rvars == <<envvars, pc, cap, out, outSize, cur, reported, error, pos, written,
           readCalls, capReleases, outReleases, usedAfterRelease, ioError>>
vars == <<xvars, gvars, rvars>>

\* A result slot that no call has filled yet.
Unset == [exc |-> "unset", val |-> <<>>]

XIdle ==
    /\ frame = MkFrame(0, 0, <<>>)
    /\ first = "none"
    /\ res1 = Unset
    /\ res2 = Unset

GIdle ==
    /\ gw = 0
    /\ gh = 0
    /\ gin = "sbs"
    /\ gout = "sbs"
    /\ vres = Unset
    /\ dres = Unset
    /\ dinv = Unset

RIdle ==
    /\ in_fmt = "sbs"
    /\ out_fmt = "sbs"
    /\ width = 0
    /\ height = 0
    /\ stream = <<>>
    /\ pc = "idle"
    /\ cap = "unbound"
    /\ out = "unbound"
    /\ outSize = Unset
    /\ cur = Unset
    /\ reported = "none"
    /\ error = "none"
    /\ pos = 0
    /\ written = <<>>
    /\ readCalls = 0
    /\ capReleases = 0
    /\ outReleases = 0
    /\ usedAfterRelease = FALSE
    /\ ioError = FALSE

\* ------------------------------------------------- SpecXform: the transforms
\* The frames drawn as inputs: every shape within the bounds, every content.
InputShapes ==
    {s \in (1..MaxW) \X (1..MaxH) : s[1] * s[2] <= MaxArea}
InputFrames == UNION {FramesOf(s[1], s[2]) : s \in InputShapes}

XInit ==
    /\ frame \in InputFrames
    /\ first = "none"
    /\ res1 = Unset
    /\ res2 = Unset
    /\ GIdle
    /\ RIdle

\* processed = sbs_to_tab(frame)
ApplySbsToTab ==
    /\ first = "none"
    /\ first' = "sbs_to_tab"
    /\ res1' = sbs_to_tab(frame)
    /\ UNCHANGED <<frame, res2, gvars, rvars>>

\* processed = tab_to_sbs(frame)
ApplyTabToSbs ==
    /\ first = "none"
    /\ first' = "tab_to_sbs"
    /\ res1' = tab_to_sbs(frame)
    /\ UNCHANGED <<frame, res2, gvars, rvars>>

\* tab_to_sbs(sbs_to_tab(frame)), when the first call returned a frame
ThenTabToSbs ==
    /\ first = "sbs_to_tab"
    /\ res1.exc = "none"
    /\ res2 = Unset
    /\ res2' = tab_to_sbs(res1.val)
    /\ UNCHANGED <<frame, first, res1, gvars, rvars>>

\* sbs_to_tab(tab_to_sbs(frame)), when the first call returned a frame
ThenSbsToTab ==
    /\ first = "tab_to_sbs"
    /\ res1.exc = "none"
    /\ res2 = Unset
    /\ res2' = sbs_to_tab(res1.val)
    /\ UNCHANGED <<frame, first, res1, gvars, rvars>>

XNext == ApplySbsToTab \/ ApplyTabToSbs \/ ThenTabToSbs \/ ThenSbsToTab

SpecXform == XInit /\ [][XNext]_vars

\* ------------------------------------------- SpecGeom: the geometry functions
\* Largest width / height drawn as an input, besides the common video sizes.
MaxDim == 6
GeomDims == (1..MaxDim) \cup {320, 480, 640, 960}
\* The layouts passed to the functions: the two supported ones and another.
GeomFormats == Formats \cup {"other"}

GInit ==
    /\ gw \in GeomDims
    /\ gh \in GeomDims
    /\ gin \in GeomFormats
    /\ gout \in GeomFormats
    /\ vres = Unset
    /\ dres = Unset
    /\ dinv = Unset
    /\ XIdle
    /\ RIdle

\* validate_resolution(gw, gh, gin)
CallValidate ==
    /\ vres = Unset
    /\ vres' = validate_resolution(gw, gh, gin)
    /\ UNCHANGED <<gw, gh, gin, gout, dres, dinv, xvars, rvars>>

\* get_output_dimensions(gw, gh, gin, gout)
CallOutputDims ==
    /\ dres = Unset
    /\ dres' = get_output_dimensions(gw, gh, gin, gout)
    /\ UNCHANGED <<gw, gh, gin, gout, vres, dinv, xvars, rvars>>

\* get_output_dimensions applied to its own result with the layouts swapped
CallInverseDims ==
    /\ dres.exc = "none"
    /\ dinv = Unset
    /\ dinv' = get_output_dimensions(dres.val[1], dres.val[2], gout, gin)
    /\ UNCHANGED <<gw, gh, gin, gout, vres, dres, xvars, rvars>>

GNext == CallValidate \/ CallOutputDims \/ CallInverseDims

SpecGeom == GInit /\ [][GNext]_vars

\* ------------------------------------------------------ Spec: a run of main()
\* Largest number of frames of an input video.
MaxFrames == 3
\* Largest number of pixels (width * height) of a frame of an input video.
RunMaxArea == 2

\* The messages of the exceptions main() raises itself.
ErrInputMissing == "FileNotFoundError: input file does not exist"
ErrDirNotWritable == "PermissionError: directory is not writable"
ErrFormatsEqual == "ValueError: input and output formats must differ"
ErrCaptureNotOpened == "RuntimeError: failed to open the input video"
ErrWriterNotOpened == "RuntimeError: failed to create the video writer"
\* The exception OpenCV raises from a call that fails loudly.
ErrCv2 == "cv2.error"

RunShapes ==
    {s \in (1..RunMaxArea) \X (1..RunMaxArea) : s[1] * s[2] <= RunMaxArea}
StreamsOf(w, h) ==
    UNION {[1..n -> FramesOf(w, h)] : n \in 0..MaxFrames}

\* The state when main() is entered: any two admitted layouts on the command
\* line, any input video within the bounds, nothing opened, nothing done.
Init ==
    /\ in_fmt \in Formats
    /\ out_fmt \in Formats
    /\ \E s \in RunShapes :
          /\ width = s[1]
          /\ height = s[2]
          /\ stream \in StreamsOf(s[1], s[2])
    /\ pc = "check_input"
    /\ cap = "unbound"
    /\ out = "unbound"
    /\ outSize = Unset
    /\ cur = Unset
    /\ reported = "none"
    /\ error = "none"
    /\ pos = 0
    /\ written = <<>>
    /\ readCalls = 0
    /\ capReleases = 0
    /\ outReleases = 0
    /\ usedAfterRelease = FALSE
    /\ ioError = FALSE
    /\ XIdle
    /\ GIdle

\* Control passes to the next statement of the try block.
Goto(next) ==
    /\ pc' = next
    /\ error' = error

\* An exception leaves the try block for the except clause.
Throw(msg) ==
    /\ pc' = "except"
    /\ error' = msg

\* if not input_path.exists(): raise FileNotFoundError
CheckInput ==
    /\ pc = "check_input"
    /\ \E exists \in BOOLEAN :
          IF exists
          THEN Goto("check_dir") /\ ioError' = ioError
          ELSE Throw(ErrInputMissing) /\ ioError' = TRUE
    /\ UNCHANGED <<envvars, cap, out, outSize, cur, reported, pos, written,
                   readCalls, capReleases, outReleases, usedAfterRelease,
                   xvars, gvars>>

\* output_dir.mkdir(...); if not os.access(output_dir, os.W_OK): raise
CheckOutputDir ==
    /\ pc = "check_dir"
    /\ \E writable \in BOOLEAN :
          IF writable
          THEN Goto("check_formats") /\ ioError' = ioError
          ELSE Throw(ErrDirNotWritable) /\ ioError' = TRUE
    /\ UNCHANGED <<envvars, cap, out, outSize, cur, reported, pos, written,
                   readCalls, capReleases, outReleases, usedAfterRelease,
                   xvars, gvars>>

\* if args.input_format == args.output_format: raise ValueError
CheckFormats ==
    /\ pc = "check_formats"
    /\ IF in_fmt = out_fmt
       THEN Throw(ErrFormatsEqual)
       ELSE Goto("open_cap")
    /\ UNCHANGED <<envvars, cap, out, outSize, cur, reported, pos, written,
                   readCalls, capReleases, outReleases, usedAfterRelease,
                   ioError, xvars, gvars>>

\* cap = cv2.VideoCapture(...); if not cap.isOpened(): raise RuntimeError
OpenCapture ==
    /\ pc = "open_cap"
    /\ \E opened \in BOOLEAN :
          IF opened
          THEN Goto("validate") /\ cap' = "opened" /\ ioError' = ioError
          ELSE Throw(ErrCaptureNotOpened) /\ cap' = "not_opened"
               /\ ioError' = TRUE
    /\ UNCHANGED <<envvars, out, outSize, cur, reported, pos, written,
                   readCalls, capReleases, outReleases, usedAfterRelease,
                   xvars, gvars>>

\* Mutant: the result of the validation is ignored.
ValidateIgnored ==
    /\ pc = "validate"
    /\ Goto("out_dims")
    /\ UNCHANGED <<envvars, cap, out, outSize, cur, reported, pos, written,
                   readCalls, capReleases, outReleases, usedAfterRelease,
                   ioError, xvars, gvars>>

\* input_width, input_height = cap.get(...); validate_resolution(...)
Validate ==
    /\ pc = "validate"
    /\ LET r == validate_resolution(width, height, in_fmt)
       IN  IF r.exc = "none" THEN Goto("out_dims") ELSE Throw(r.exc)
    /\ UNCHANGED <<envvars, cap, out, outSize, cur, reported, pos, written,
                   readCalls, capReleases, outReleases, usedAfterRelease,
                   ioError, xvars, gvars>>

\* output_width, output_height = get_output_dimensions(...)
ComputeOutputSize ==
    /\ pc = "out_dims"
    /\ LET r == get_output_dimensions(width, height, in_fmt, out_fmt)
       IN  /\ outSize' = r
           /\ IF r.exc = "none" THEN Goto("open_out") ELSE Throw(r.exc)
    /\ UNCHANGED <<envvars, cap, out, cur, reported, pos, written,
                   readCalls, capReleases, outReleases, usedAfterRelease,
                   ioError, xvars, gvars>>

\* out = cv2.VideoWriter(...); if not out.isOpened(): raise RuntimeError
OpenWriter ==
    /\ pc = "open_out"
    /\ \E opened \in BOOLEAN :
          IF opened
          THEN Goto("read") /\ out' = "opened" /\ ioError' = ioError
          ELSE Throw(ErrWriterNotOpened) /\ out' = "not_opened"
               /\ ioError' = TRUE
    /\ UNCHANGED <<envvars, cap, outSize, cur, reported, pos, written,
                   readCalls, capReleases, outReleases, usedAfterRelease,
                   xvars, gvars>>

\* ret, frame = cap.read(); if not ret: break
\* cap.read() hands over the next frame; or returns ret = False, at the end of
\* the stream and also when the decoder fails to grab a frame; or raises.
ReadFrame ==
    /\ pc = "read"
    /\ readCalls' = readCalls + 1
    /\ usedAfterRelease' = (usedAfterRelease \/ cap = "released")
    /\ \/ /\ pos < Len(stream)
          /\ cur' = Ok(stream[pos + 1])
          /\ pos' = pos + 1
          /\ Goto("transform")
          /\ ioError' = ioError
       \/ /\ pos = Len(stream)
          /\ Goto("success")
          /\ UNCHANGED <<cur, pos, ioError>>
       \/ /\ pos < Len(stream)
          /\ Goto("success")
          /\ ioError' = TRUE
          /\ UNCHANGED <<cur, pos>>
       \/ /\ pos < Len(stream)
          /\ Throw(ErrCv2)
          /\ ioError' = TRUE
          /\ UNCHANGED <<cur, pos>>
    /\ UNCHANGED <<envvars, cap, out, outSize, reported, written,
                   capReleases, outReleases, xvars, gvars>>

\* processed = sbs_to_tab(frame) if args.output_format == "tab"
\*             else tab_to_sbs(frame)
TransformFrame ==
    /\ pc = "transform"
    /\ LET r == IF out_fmt = "tab"
                THEN sbs_to_tab(cur.val)
                ELSE tab_to_sbs(cur.val)
       IN  /\ cur' = r
           /\ IF r.exc = "none" THEN Goto("write") ELSE Throw(r.exc)
    /\ UNCHANGED <<envvars, cap, out, outSize, reported, pos, written,
                   readCalls, capReleases, outReleases, usedAfterRelease,
                   ioError, xvars, gvars>>

\* Mutant: the encoder puts each frame before the ones it already has.
WriteFramePrepended ==
    /\ pc = "write"
    /\ usedAfterRelease' = (usedAfterRelease \/ out = "released")
    /\ written' = <<cur.val>> \o written
    /\ Goto("read")
    /\ UNCHANGED <<envvars, cap, out, outSize, cur, reported, pos,
                   readCalls, capReleases, outReleases, ioError, xvars, gvars>>

\* out.write(processed)
\* out.write() returns nothing: the encoder takes the frame; or fails and drops
\* it without a word; or raises.
WriteFrame ==
    /\ pc = "write"
    /\ usedAfterRelease' = (usedAfterRelease \/ out = "released")
    /\ \/ /\ written' = Append(written, cur.val)
          /\ Goto("read")
          /\ ioError' = ioError
       \/ /\ written' = written
          /\ Goto("read")
          /\ ioError' = TRUE
       \/ /\ written' = written
          /\ Throw(ErrCv2)
          /\ ioError' = TRUE
    /\ UNCHANGED <<envvars, cap, out, outSize, cur, reported, pos,
                   readCalls, capReleases, outReleases, xvars, gvars>>

\* print("conversion completed successfully")
ReportSuccess ==
    /\ pc = "success"
    /\ reported' = "success"
    /\ Goto("finally")
    /\ UNCHANGED <<envvars, cap, out, outSize, cur, pos, written,
                   readCalls, capReleases, outReleases, usedAfterRelease,
                   ioError, xvars, gvars>>

\* except Exception as e: print(f"Error: ..."); sys.exit(1)
ReportError ==
    /\ pc = "except"
    /\ reported' = "error"
    /\ Goto("finally")
    /\ UNCHANGED <<envvars, cap, out, outSize, cur, pos, written,
                   readCalls, capReleases, outReleases, usedAfterRelease,
                   ioError, xvars, gvars>>

\* Mutant: the finally block releases the decoder only.
ReleaseCaptureOnly ==
    /\ pc = "finally"
    /\ cap' = IF cap # "unbound" THEN "released" ELSE cap
    /\ capReleases' = IF cap # "unbound" THEN capReleases + 1 ELSE capReleases
    /\ Goto("done")
    /\ UNCHANGED <<envvars, out, outSize, cur, reported, pos, written,
                   readCalls, outReleases, usedAfterRelease, ioError,
                   xvars, gvars>>

\* finally: if "cap" in locals(): cap.release()
\*          if "out" in locals(): out.release()
ReleaseHandles ==
    /\ pc = "finally"
    /\ cap' = IF cap # "unbound" THEN "released" ELSE cap
    /\ capReleases' = IF cap # "unbound" THEN capReleases + 1 ELSE capReleases
    /\ out' = IF out # "unbound" THEN "released" ELSE out
    /\ outReleases' = IF out # "unbound" THEN outReleases + 1 ELSE outReleases
    /\ Goto("done")
    /\ UNCHANGED <<envvars, outSize, cur, reported, pos, written,
                   readCalls, usedAfterRelease, ioError, xvars, gvars>>

Next ==
    \/ CheckInput
    \/ CheckOutputDir
    \/ CheckFormats
    \/ OpenCapture
    \/ Validate
    \/ ComputeOutputSize
    \/ OpenWriter
    \/ ReadFrame
    \/ TransformFrame
    \/ WriteFrame
    \/ ReportSuccess
    \/ ReportError
    \/ ReleaseHandles

Spec == Init /\ [][Next]_vars

\* ======================================================= claims on SpecXform
IsEven(n) == n % 2 = 0

\* A frame value is well formed: h rows of w pixels each.
WellFormed(f) ==
    /\ Len(f.px) = f.h
    /\ \A r \in 1..f.h : Len(f.px[r]) = f.w

\* C1: round trip. For every frame of even width, tab_to_sbs(sbs_to_tab(f)) is
\* f (same width, height and pixel at every position); for every frame of even
\* height, sbs_to_tab(tab_to_sbs(f)) is f.
C1_RoundTrip ==
    /\ (first = "sbs_to_tab" /\ IsEven(frame.w)) =>
          /\ res1.exc = "none"
          /\ res2 # Unset => (res2.exc = "none" /\ res2.val = frame)
    /\ (first = "tab_to_sbs" /\ IsEven(frame.h)) =>
          /\ res1.exc = "none"
          /\ res2 # Unset => (res2.exc = "none" /\ res2.val = frame)

\* A 4x2 frame whose two halves differ went through sbs_to_tab and back.
C1_Witness ==
    /\ first = "sbs_to_tab"
    /\ frame.w = 4
    /\ frame.h = 2
    /\ ColsBefore(frame, 2) # ColsFrom(frame, 2)
    /\ res2.exc = "none"
    /\ res2.val = frame

\* C2: for every frame of even width W and height H, sbs_to_tab returns a frame
\* of width W/2 and height 2H whose pixel (r, c) is input pixel (r, c) and whose
\* pixel (H + r, c) is input pixel (r, W/2 + c), for r < H and c < W/2.
C2_SbsToTabLayout ==
    (first = "sbs_to_tab" /\ IsEven(frame.w)) =>
        /\ res1.exc = "none"
        /\ res1.val.w * 2 = frame.w
        /\ res1.val.h = 2 * frame.h
        /\ WellFormed(res1.val)
        /\ \A r \in 1..frame.h : \A c \in 1..(frame.w \div 2) :
              /\ res1.val.px[r][c] = frame.px[r][c]
              /\ res1.val.px[frame.h + r][c] = frame.px[r][(frame.w \div 2) + c]

\* A 4x2 frame with four different columns and two different rows was
\* transformed by sbs_to_tab.
C2_Witness ==
    /\ first = "sbs_to_tab"
    /\ frame.w = 4
    /\ frame.h = 2
    /\ frame.px[1] = <<0, 0, 0, 1>>
    /\ frame.px[2] = <<1, 0, 1, 1>>
    /\ res1.exc = "none"
    /\ res1.val.px = << <<0, 0>>, <<1, 0>>, <<0, 1>>, <<1, 1>> >>

\* C10 as stated: on an odd width sbs_to_tab returns, without raising, a frame
\* of width floor(W/2) and height 2H; on an odd height tab_to_sbs returns,
\* without raising, a frame of width 2W and height floor(H/2).
C10_Original ==
    /\ (first = "sbs_to_tab" /\ ~IsEven(frame.w)) =>
          /\ res1.exc = "none"
          /\ res1.val.w = frame.w \div 2
          /\ res1.val.h = 2 * frame.h
    /\ (first = "tab_to_sbs" /\ ~IsEven(frame.h)) =>
          /\ res1.exc = "none"
          /\ res1.val.w = 2 * frame.w
          /\ res1.val.h = frame.h \div 2

\* C10 amended: on an odd width sbs_to_tab raises ValueError and returns no
\* frame (the halves are floor(W/2) and ceil(W/2) columns wide and cannot be
\* stacked); on an odd height tab_to_sbs raises ValueError and returns no frame.
C10_OddRaises ==
    /\ (first = "sbs_to_tab" /\ ~IsEven(frame.w)) =>
          /\ res1.exc = "ValueError"
          /\ res1.val = <<>>
          /\ ColsBefore(frame, frame.w \div 2).w = frame.w \div 2
          /\ ColsFrom(frame, frame.w \div 2).w = (frame.w \div 2) + 1
    /\ (first = "tab_to_sbs" /\ ~IsEven(frame.h)) =>
          /\ res1.exc = "ValueError"
          /\ res1.val = <<>>
          /\ RowsBefore(frame, frame.h \div 2).h = frame.h \div 2
          /\ RowsFrom(frame, frame.h \div 2).h = (frame.h \div 2) + 1

\* sbs_to_tab was applied to a frame three columns wide.
C10_Witness ==
    /\ first = "sbs_to_tab"
    /\ frame.w = 3
    /\ frame.h = 2
    /\ res1.exc = "ValueError"

\* ======================================================== claims on SpecGeom
\* C7: validate_resolution with layout SBS returns (width/2, height) when the
\* width is even and fails with the odd-width error when it is odd, whatever
\* the height; with layout TAB it returns (width, height/2) when the height is
\* even and fails with the odd-height error when it is odd, whatever the width.
C7_ValidateResolution ==
    vres # Unset =>
        /\ (gin = "sbs" /\ IsEven(gw)) =>
              (vres.exc = "none" /\ vres.val[1] * 2 = gw /\ vres.val[2] = gh)
        /\ (gin = "sbs" /\ ~IsEven(gw)) =>
              (vres.exc = ErrSbsWidthOdd /\ vres.val = <<>>)
        /\ (gin = "tab" /\ IsEven(gh)) =>
              (vres.exc = "none" /\ vres.val[1] = gw /\ vres.val[2] * 2 = gh)
        /\ (gin = "tab" /\ ~IsEven(gh)) =>
              (vres.exc = ErrTabHeightOdd /\ vres.val = <<>>)

\* validate_resolution rejected an SBS frame of odd width and even height.
C7_Witness ==
    /\ gin = "sbs"
    /\ gw = 5
    /\ gh = 4
    /\ vres.exc = ErrSbsWidthOdd

\* C8: once the split dimension has been validated as even,
\* get_output_dimensions maps SBS -> TAB as (W, H) -> (W/2, H*2) and
\* TAB -> SBS as (W, H) -> (W*2, H/2) with exact division, and applying it to
\* its own result with the layouts swapped returns (W, H).
C8_OutputDimensions ==
    (vres.exc = "none" /\ dres # Unset) =>
        /\ (gin = "sbs" /\ gout = "tab") =>
              /\ dres.exc = "none"
              /\ dres.val[1] * 2 = gw
              /\ dres.val[2] = gh * 2
        /\ (gin = "tab" /\ gout = "sbs") =>
              /\ dres.exc = "none"
              /\ dres.val[1] = gw * 2
              /\ dres.val[2] * 2 = gh
        /\ (gin \in Formats /\ gout \in Formats /\ gin # gout /\ dinv # Unset) =>
              (dinv.exc = "none" /\ dinv.val = <<gw, gh>>)

\* (640, 480) SBS -> TAB gave (320, 960), and (320, 960) TAB -> SBS gave
\* (640, 480) again.
C8_Witness ==
    /\ gw = 640
    /\ gh = 480
    /\ gin = "sbs"
    /\ gout = "tab"
    /\ vres.exc = "none"
    /\ dres = Ok(<<320, 960>>)
    /\ dinv = Ok(<<640, 480>>)

\* C9: get_output_dimensions fails with the no-conversion-needed error whenever
\* the input layout equals the output layout, for any width and height, and
\* returns no dimensions.
C9_SameLayoutFails ==
    (dres # Unset /\ gin = gout) =>
        (dres.exc = ErrSameFormat /\ dres.val = <<>>)

\* get_output_dimensions was called with SBS as both layouts.
C9_Witness ==
    /\ gin = "sbs"
    /\ gout = "sbs"
    /\ gw = 4
    /\ dres.exc = ErrSameFormat

\* ============================================================ claims on Spec
\* The declared input layout cannot be split evenly.
OddSplit ==
    \/ in_fmt = "sbs" /\ ~IsEven(width)
    \/ in_fmt = "tab" /\ ~IsEven(height)

\* The transform the conversion in_fmt -> out_fmt asks for.
Expected(f) == IF in_fmt = "sbs" THEN sbs_to_tab(f) ELSE tab_to_sbs(f)

\* C3: frame count and order are preserved. A run over an N-frame input with
\* differing layouts, an evenly splittable frame size and no collaborator
\* error reports success having written exactly N frames, the k-th written
\* being the transform of the k-th read; with N = 0 it writes nothing and
\* reports success.
C3_CountAndOrder ==
    (~ioError /\ in_fmt # out_fmt /\ ~OddSplit) =>
        /\ Len(written) <= pos
        /\ pos <= Len(stream)
        /\ \A k \in 1..Len(written) :
              /\ Expected(stream[k]).exc = "none"
              /\ written[k] = Expected(stream[k]).val
        /\ pc = "done" =>
              /\ reported = "success"
              /\ error = "none"
              /\ Len(written) = Len(stream)

\* A run over three frames, not all alike, ended in success with three frames
\* written.
C3_Witness ==
    /\ pc = "done"
    /\ ~ioError
    /\ in_fmt = "sbs"
    /\ out_fmt = "tab"
    /\ width = 2
    /\ Len(stream) = 3
    /\ stream[1] # stream[2]
    /\ stream[2] # stream[3]
    /\ stream[1].px[1][1] # stream[1].px[1][2]
    /\ Len(written) = 3
    /\ reported = "success"

\* C4: core errors come before any frame. In every run whose layouts are equal
\* or whose declared input layout has an odd split dimension, no frame is ever
\* read from the decoder or written to the encoder, and the run ends with an
\* error reported: the equal-layouts error or the odd-dimension error, unless
\* a collaborator failed first.
C4_ErrorsBeforeFrames ==
    (in_fmt = out_fmt \/ OddSplit) =>
        /\ readCalls = 0
        /\ pos = 0
        /\ written = <<>>
        /\ out = "unbound"
        /\ reported # "success"
        /\ pc = "done" =>
              /\ reported = "error"
              /\ ~ioError =>
                    error = (IF in_fmt = out_fmt
                             THEN ErrFormatsEqual
                             ELSE IF in_fmt = "sbs"
                             THEN ErrSbsWidthOdd
                             ELSE ErrTabHeightOdd)

\* A run over a one-pixel-wide video declared as SBS ended with the odd-width
\* error although the video has frames to read.
C4_Witness ==
    /\ pc = "done"
    /\ in_fmt = "sbs"
    /\ out_fmt = "tab"
    /\ width = 1
    /\ Len(stream) = 2
    /\ cap = "released"
    /\ reported = "error"
    /\ error = ErrSbsWidthOdd

\* C5: every run ends in exactly one of two outcomes: success reported with
\* every input frame transformed and written, or an error reported with fewer
\* than all input frames written; a decoder or encoder failure in mid-stream
\* ends the run in the error outcome.
C5_TwoOutcomes ==
    pc = "done" =>
        /\ reported \in {"success", "error"}
        /\ reported = "success" =>
              /\ Len(written) = Len(stream)
              /\ \A k \in 1..Len(stream) : written[k] = Expected(stream[k]).val
        /\ reported = "error" =>
              /\ Len(written) <= Len(stream)
              /\ Len(stream) > 0 => Len(written) < Len(stream)
        /\ (ioError /\ readCalls > 0) => reported = "error"

\* C6: every handle acquired during the run is released exactly once by the
\* time the run ends, on every exit path, and no handle is used after its
\* release.
C6_HandlesReleased ==
    /\ ~usedAfterRelease
    /\ capReleases <= 1
    /\ outReleases <= 1
    /\ pc = "done" =>
          /\ cap \in {"unbound", "released"}
          /\ out \in {"unbound", "released"}
          /\ capReleases = (IF cap = "released" THEN 1 ELSE 0)
          /\ outReleases = (IF out = "released" THEN 1 ELSE 0)
    /\ pc # "done" =>
          /\ cap # "released"
          /\ out # "released"
    /\ pc \in {"read", "transform", "write", "success"} =>
          (cap = "opened" /\ out = "opened")

\* A run that failed in mid-stream, with one frame written, ended with both
\* handles released.
C6_Witness ==
    /\ pc = "done"
    /\ reported = "error"
    /\ error = ErrCv2
    /\ Len(written) = 1
    /\ cap = "released"
    /\ out = "released"
    /\ capReleases = 1
    /\ outReleases = 1

====
